---- MODULE Spec2Model ----
(***************************************************************************)
(* A model of the galaxy interpreter (interpreter/src/lib.rs): the term    *)
(* model with its shared, memoizing nodes, the parser and the printer, the *)
(* call-by-need evaluator, the modulation codec and the interact driver.   *)
(*                                                                         *)
(* Terms are records; a CachedExpr is the index of a cell of the heap, a   *)
(* sequence of [expr, cached] cells (Rc<RefCell<Expr>>, Rc<RefCell<bool>>: *)
(* the two are always cloned together, so one index stands for both).      *)
(* Expr::eval and CachedExpr::eval, which call each other, are a machine   *)
(* with an explicit stack of the calls that wait for a result: one step of *)
(* the machine is one call, one return, or one rewrite of the source.  The *)
(* other recursive functions are recursive operators that thread the heap  *)
(* through every call, in the source's order of evaluation.  A panic is    *)
(* the value Panic(..); an evaluation that has not returned within the     *)
(* model's bound (the source recurses without bound) is the value Overflow.*)
(***************************************************************************)
EXTENDS Integers, Sequences, FiniteSets, TLC

VARIABLES build, env, heap, pc, arg, out, hist, ctl, stk, fuel

vars == <<build, env, heap, pc, arg, out, hist, ctl, stk, fuel>>

(***************************************************************************)
(* Bounds.                                                                 *)
(***************************************************************************)
\* i64 is modelled as a two's complement integer of 4 * Nibbles bits (the
\* source has 16 nibbles); the codec works nibble by nibble.
Nibbles == 2
\* The number of steps after which an evaluation counts as not returning.
MaxFuel == 400
\* Small numbers of the inputs: -MaxNum .. MaxNum.
MaxNum == 6

IntBits == 4 * Nibbles
MinInt == -(2 ^ (IntBits - 1))
MaxInt == (2 ^ (IntBits - 1)) - 1
I64 == MinInt .. MaxInt

\* The two ways a build treats an arithmetic overflow: "debug" panics
\* (overflow checks on), "release" wraps.
Builds == {"debug", "release"}

\* The two's complement value of the low IntBits bits of x.
Wrap(x) == ((x - MinInt) % (2 ^ IntBits)) + MinInt

(***************************************************************************)
(* Terms (enum Expr) and fatal outcomes.                                   *)
(***************************************************************************)
Ap(l, r) == [tag |-> "Ap", l |-> l, r |-> r]
Op(name, v) == [tag |-> "Op", name |-> name, v |-> v]
Num(n) == [tag |-> "Num", n |-> n]
Var(name) == [tag |-> "Var", name |-> name]

Panic(msg) == [tag |-> "Panic", msg |-> msg]
Overflow == [tag |-> "Overflow"]
IsErr(e) == e.tag \in {"Panic", "Overflow"}

Primitive ==
    {"add", "mul", "div", "eq", "lt", "neg", "s", "c", "b", "i", "f", "t",
     "cons", "car", "cdr", "nil", "isnil"}

\* Into<CachedExpr> for Expr: a fresh cell, not yet reduced.
Cell(e) == [expr |-> e, cached |-> FALSE]
Alloc(h, e) == Append(h, Cell(e))

\* v bound to the value of an expression that is used more than once.
Bind(v, F(_)) == F(v)

boolean(b) == IF b THEN Op("t", <<>>) ELSE Op("f", <<>>)
nil == Op("nil", <<>>)
\* Expr::cons(hd, tl) = Ap(Ap(Op(Cons, []).into(), hd).into(), tl): the
\* arguments are cells already; two more cells are made.
cons(h, hd, tl) ==
    LET h1 == Alloc(h, Op("cons", <<>>))
        h2 == Alloc(h1, Ap(Len(h1), hd))
    IN  [e |-> Ap(Len(h2), tl), h |-> h2]

(***************************************************************************)
(* 64-bit arithmetic of the primitive rules, at the model's width.  Each   *)
(* yields Num(..) or the panic of the build.                               *)
(***************************************************************************)
OnOverflow(b, x, what) ==
    IF x \in I64 THEN Num(x)
    ELSE IF b = "debug" THEN Panic(what)
    ELSE Num(Wrap(x))

Abs(x) == IF x < 0 THEN -x ELSE x

\* For comparison, the quotient rounded toward minus infinity.
FloorDiv(x, y) ==
    IF y = 0 THEN Panic("attempt to divide by zero")
    ELSE IF x = MinInt /\ y = -1 THEN Panic("attempt to divide with overflow")
    ELSE Num(x \div y)

\* Rust's `/` on i64: fatal on a zero divisor and on MIN / -1 in every
\* build; otherwise the quotient rounded toward zero.
RustDiv(x, y) ==
    IF y = 0 THEN Panic("attempt to divide by zero")
    ELSE IF x = MinInt /\ y = -1 THEN Panic("attempt to divide with overflow")
    ELSE IF (x < 0) = (y < 0) THEN Num(Abs(x) \div Abs(y))
    ELSE Num(-(Abs(x) \div Abs(y)))

RustNeg(b, x) == OnOverflow(b, -x, "attempt to negate with overflow")
RustAdd(b, x, y) == OnOverflow(b, x + y, "attempt to add with overflow")
RustMul(b, x, y) == OnOverflow(b, x * y, "attempt to multiply with overflow")
\* i64::abs: MIN.abs() panics with overflow checks and is MIN without.
RustAbs(b, x) == IF x < 0 THEN RustNeg(b, x) ELSE Num(x)

(***************************************************************************)
(* Text.  A string of the source is the sequence of its space-separated    *)
(* words.  Display for i64 writes an integer as its decimal numeral;       *)
(* str::parse::<i64> reads one back and fails on any other word.           *)
(***************************************************************************)
Display == [n \in I64 |-> ToString(n)]
Numerals == {Display[n] : n \in I64}
ParseI64 == [s \in Numerals |-> CHOOSE n \in I64 : Display[n] = s]

\* The words the parser takes for primitives (line 347).
PrimitiveWords == Primitive \cup {"mod", "dem", "vec"}
\* The names of the model that begin with ':' or 'x'.
ColonOrXNames == {":0", ":1", ":2", ":3", ":4", ":5", "x0"}

(***************************************************************************)
(* parse: recursive descent over the tokens, left to right.  The result is *)
(* [e, h, rest]: the term (or the panic), the heap with the cells made,    *)
(* the tokens left.                                                        *)
(***************************************************************************)
Parsed(e, h, rest) == [e |-> e, h |-> h, rest |-> rest]

RECURSIVE parse(_, _, _), parseList(_, _, _, _), consList(_, _, _)

\* for x in lst.into_iter().rev() { res = Expr::cons(x.into(), res.into()) }
consList(lst, res, h) ==
    IF lst = <<>> THEN [e |-> res, h |-> h]
    ELSE Bind(Alloc(Alloc(h, lst[Len(lst)]), res), LAMBDA h2 :
         Bind(cons(h2, Len(h2) - 1, Len(h2)), LAMBDA c :
         consList(SubSeq(lst, 1, Len(lst) - 1), c.e, c.h)))

\* The loop of the "(" arm: an element, then a comma if one follows.
parseList(keys, toks, h, lst) ==
    IF toks = <<>> THEN Parsed(Panic("peek on exhausted input"), h, toks)
    ELSE IF Head(toks) = ")" THEN
        Bind(consList(lst, nil, h), LAMBDA c : Parsed(c.e, c.h, Tail(toks)))
    ELSE Bind(parse(keys, toks, h), LAMBDA p :
         IF IsErr(p.e) THEN p
         ELSE IF p.rest = <<>> THEN Parsed(Panic("peek on exhausted input"), p.h, <<>>)
         ELSE IF Head(p.rest) = ","
             THEN parseList(keys, Tail(p.rest), p.h, Append(lst, p.e))
         ELSE parseList(keys, p.rest, p.h, Append(lst, p.e)))

parse(keys, toks, h) ==
    IF toks = <<>> THEN Parsed(Panic("iterator exhausted"), h, toks)
    ELSE IF Head(toks) = "(" THEN parseList(keys, Tail(toks), h, <<>>)
    ELSE IF Head(toks) = "ap" THEN
        Bind(parse(keys, Tail(toks), h), LAMBDA l :
        IF IsErr(l.e) THEN l
        ELSE Bind(parse(keys, l.rest, Alloc(l.h, l.e)), LAMBDA r :
             IF IsErr(r.e) THEN r
             ELSE Parsed(Ap(Len(l.h) + 1, Len(r.h) + 1), Alloc(r.h, r.e), r.rest)))
    ELSE IF Head(toks) \in PrimitiveWords THEN
        IF Head(toks) = "vec" THEN Parsed(Op("cons", <<>>), h, Tail(toks))
        ELSE IF Head(toks) \in Primitive THEN Parsed(Op(Head(toks), <<>>), h, Tail(toks))
        ELSE Parsed(Panic("unwrap on None"), h, Tail(toks))
    ELSE IF Head(toks) \in Numerals THEN Parsed(Num(ParseI64[Head(toks)]), h, Tail(toks))
    ELSE IF Head(toks) \in keys \/ Head(toks) \in ColonOrXNames
        THEN Parsed(Var(Head(toks)), h, Tail(toks))
    ELSE Parsed(Panic("unknown var"), h, Tail(toks))

\* parse_string: the term of the first expression of the text.
parse_string(keys, toks, h) == parse(keys, toks, h)

(***************************************************************************)
(* Display for Expr: the prefix text of a term, read through its cells as  *)
(* they are now.                                                           *)
(***************************************************************************)
RECURSIVE fmt(_, _, _), fmtArgs(_, _, _, _)

fmtArgs(res, v, h, depth) ==
    IF v = <<>> THEN res
    ELSE fmtArgs(<<"ap">> \o res \o fmt(h[Head(v)].expr, h, depth), Tail(v), h, depth)

\* depth bounds the walk: a term that holds itself has no finite text.
fmt(e, h, depth) ==
    IF depth = 0 THEN <<"...">>
    ELSE CASE e.tag = "Ap" ->
                <<"ap">> \o fmt(h[e.l].expr, h, depth - 1) \o fmt(h[e.r].expr, h, depth - 1)
           [] e.tag = "Op" -> fmtArgs(<<e.name>>, e.v, h, depth - 1)
           [] e.tag = "Num" -> <<Display[e.n]>>
           [] e.tag = "Var" -> <<e.name>>
           [] OTHER -> <<"?">>

(***************************************************************************)
(* Expr::eval and CachedExpr::eval as a machine [ctl, stk, h].             *)
(*   ctl  what happens next: Expr::eval of a term (ToEval), CachedExpr::   *)
(*        eval of a cell (ToForce), the return of a value to the call on   *)
(*        top of the stack (ToReturn), or a panic (Dead);                  *)
(*   stk  the calls that wait for the value, innermost last;               *)
(*   h    the heap.                                                        *)
(* A call in tail position (`Ap(..).eval(env)` as the value of an arm)     *)
(* leaves nothing on stk: its caller only hands the value on.              *)
(***************************************************************************)
ToEval(e) == [op |-> "eval", e |-> e]
ToForce(n) == [op |-> "force", n |-> n]
ToReturn(v) == [op |-> "ret", v |-> v]
Dead(err) == [op |-> "dead", v |-> err]

Machine(c, s, h) == [ctl |-> c, stk |-> s, h |-> h]

\* The frames: what the caller does with the value of the call it waits for.
FrameAp(r) == [k |-> "Ap", r |-> r]
FrameCache(n) == [k |-> "Cache", n |-> n]
FrameNeg == [k |-> "Neg"]
FrameIsnil == [k |-> "Isnil"]
FrameLeft(name, y) == [k |-> "Left", name |-> name, y |-> y]
FrameRight(name, a) == [k |-> "Right", name |-> name, a |-> a]

must_num(e) == IF e.tag = "Num" THEN e ELSE Panic("not a num")

\* The number of arguments at which a primitive's rule fires (the slice
\* patterns of the match on (name, v)).
Arity(name) ==
    CASE name \in {"b", "c", "s", "cons"} -> 3
      [] name \in {"f", "t", "add", "mul", "div", "eq", "lt"} -> 2
      [] OTHER -> 1

\* (B, [x0, x1, x2]) => Ap(x0, Ap(x1, x2).into()).eval(env)
ruleB(v, s, h) ==
    Bind(Alloc(h, Ap(v[2], v[3])), LAMBDA h1 :
    Machine(ToEval(Ap(v[1], Len(h1))), s, h1))

\* (C, [x0, x1, x2]) => Ap(Ap(x0, x2).into(), x1).eval(env)
ruleC(v, s, h) ==
    Bind(Alloc(h, Ap(v[1], v[3])), LAMBDA h1 :
    Machine(ToEval(Ap(Len(h1), v[2])), s, h1))

\* For comparison, an S that does not hand z to y: Ap(Ap(x0, x2), x1).
ruleSWithoutShare(v, s, h) == ruleC(v, s, h)

\* (S, [x0, x1, x2]) => Ap(Ap(x0, x2).into(), Ap(x1, x2).into()).eval(env)
ruleS(v, s, h) ==
    Bind(Alloc(Alloc(h, Ap(v[1], v[3])), Ap(v[2], v[3])), LAMBDA h2 :
    Machine(ToEval(Ap(Len(h2) - 1, Len(h2))), s, h2))

\* (F, [x0, x1]) => x1.eval(env).clone()
ruleF(v, s, h) == Machine(ToForce(v[2]), s, h)

\* For comparison, a T that demands its second argument.
ruleTSecond(v, s, h) == ruleF(v, s, h)

\* (T, [x0, x1]) => x0.eval(env).clone()
ruleT(v, s, h) == Machine(ToForce(v[1]), s, h)

\* (Cons, [x0, x1, x2]) => Ap(Ap(x2, x0).into(), x1).eval(env)
ruleCons(v, s, h) ==
    Bind(Alloc(h, Ap(v[3], v[1])), LAMBDA h1 :
    Machine(ToEval(Ap(Len(h1), v[2])), s, h1))

\* The arm of a saturated primitive.
evalRule(name, v, s, h) ==
    CASE name = "b" -> ruleB(v, s, h)
      [] name = "c" -> ruleC(v, s, h)
      [] name = "s" -> ruleS(v, s, h)
      [] name = "i" -> Machine(ToForce(v[1]), s, h)
      [] name = "car" ->
            Bind(Alloc(h, boolean(TRUE)), LAMBDA h1 :
            Machine(ToEval(Ap(v[1], Len(h1))), s, h1))
      [] name = "cdr" ->
            Bind(Alloc(h, boolean(FALSE)), LAMBDA h1 :
            Machine(ToEval(Ap(v[1], Len(h1))), s, h1))
      [] name = "neg" -> Machine(ToForce(v[1]), Append(s, FrameNeg), h)
      [] name = "nil" -> Machine(ToEval(boolean(TRUE)), s, h)
      [] name = "isnil" -> Machine(ToForce(v[1]), Append(s, FrameIsnil), h)
      [] name = "f" -> ruleF(v, s, h)
      [] name = "t" -> ruleT(v, s, h)
      [] name \in {"add", "mul", "div", "eq", "lt"} ->
            Machine(ToForce(v[1]), Append(s, FrameLeft(name, v[2])), h)
      [] name = "cons" -> ruleCons(v, s, h)

\* Expr::eval, up to its first call or its return.
stepEval(e, s, h, cx) ==
    CASE e.tag = "Ap" -> Machine(ToForce(e.l), Append(s, FrameAp(e.r)), h)
      [] e.tag = "Var" ->
            IF e.name \in DOMAIN cx.env
            THEN Machine(ToEval(cx.env[e.name]), s, h)
            ELSE Machine(Dead(Panic("unwrap on None")), s, h)
      [] e.tag = "Op" ->
            IF Len(e.v) = Arity(e.name)
            THEN evalRule(e.name, e.v, s, h)
            ELSE Machine(ToReturn(e), s, h)
      [] OTHER -> Machine(ToReturn(e), s, h)

\* For comparison, a cell that is reduced in place without its flag.
stepForceUnflagged(n, s, h) ==
    IF h[n].cached THEN Machine(ToReturn(h[n].expr), s, h)
    ELSE Machine(ToEval(h[n].expr), Append(s, FrameCache(n)), h)

\* CachedExpr::eval, up to its call of Expr::eval or its return: the flag
\* is set first; a cell whose flag was set answers with the term it holds.
stepForce(n, s, h) ==
    IF h[n].cached THEN Machine(ToReturn(h[n].expr), s, h)
    ELSE Machine(ToEval(h[n].expr), Append(s, FrameCache(n)),
                 [h EXCEPT ![n].cached = TRUE])

\* The arithmetic and comparison arms, both operands in hand.
evalBinary(name, a, b, build_) ==
    CASE name = "add" -> RustAdd(build_, a, b)
      [] name = "mul" -> RustMul(build_, a, b)
      [] name = "div" -> RustDiv(a, b)
      [] name = "eq" -> boolean(a = b)
      [] name = "lt" -> boolean(a < b)

Outcome(r, s, h) == IF IsErr(r) THEN Machine(Dead(r), s, h) ELSE Machine(ToReturn(r), s, h)

\* A value comes back to the call on top of the stack: the rest of that
\* call, up to its next call or its return.
stepReturn(v, fr, s, h, cx) ==
    CASE fr.k = "Ap" ->
            IF v.tag = "Op"
            THEN Machine(ToEval(Op(v.name, Append(v.v, fr.r))), s, h)
            ELSE Machine(Dead(Panic("not op or func")), s, h)
      [] fr.k = "Cache" -> Machine(ToReturn(v), s, [h EXCEPT ![fr.n].expr = v])
      [] fr.k = "Neg" ->
            IF v.tag = "Num" THEN Outcome(RustNeg(cx.build, v.n), s, h)
            ELSE Machine(Dead(must_num(v)), s, h)
      [] fr.k = "Isnil" ->
            IF v.tag = "Op" /\ v.name = "nil" /\ Len(v.v) = 0
                THEN Machine(ToEval(boolean(TRUE)), s, h)
            ELSE IF v.tag = "Op" /\ v.name = "cons" /\ Len(v.v) = 2
                THEN Machine(ToEval(boolean(FALSE)), s, h)
            ELSE Machine(Dead(Panic("unexpected x0")), s, h)
      [] fr.k = "Left" ->
            IF v.tag = "Num"
            THEN Machine(ToForce(fr.y), Append(s, FrameRight(fr.name, v.n)), h)
            ELSE Machine(Dead(must_num(v)), s, h)
      [] fr.k = "Right" ->
            IF v.tag = "Num" THEN Outcome(evalBinary(fr.name, fr.a, v.n, cx.build), s, h)
            ELSE Machine(Dead(must_num(v)), s, h)

Returned(m) == m.ctl.op = "ret" /\ m.stk = <<>>
Halted(m) == m.ctl.op = "dead" \/ Returned(m)

Step(m, cx) ==
    CASE m.ctl.op = "eval" -> stepEval(m.ctl.e, m.stk, m.h, cx)
      [] m.ctl.op = "force" -> stepForce(m.ctl.n, m.stk, m.h)
      [] m.ctl.op = "ret" ->
            stepReturn(m.ctl.v, m.stk[Len(m.stk)], SubSeq(m.stk, 1, Len(m.stk) - 1), m.h, cx)

RECURSIVE Steps(_, _, _)
\* The machine after n steps, or as it halted before.
Steps(m, cx, n) ==
    IF n = 0 \/ Halted(m) THEN m
    ELSE IF n = 1 THEN Step(m, cx)
    ELSE Bind(Steps(m, cx, n \div 2), LAMBDA m1 : Steps(m1, cx, n - (n \div 2)))

\* The machine run to its end, or cut off after n steps.
Run(m, cx, n) ==
    Bind(Steps(m, cx, n), LAMBDA r :
    IF Halted(r) THEN r ELSE Machine(Dead(Overflow), r.stk, r.h))

\* The result of a whole call, [v, h]: the term returned (or the fatal
\* outcome) and the heap it leaves.
Ret(v, h) == [v |-> v, h |-> h]
Result(m) == Ret(m.ctl.v, m.h)

eval(e, cx, h, n) == Result(Run(Machine(ToEval(e), <<>>, h), cx, n))
ceval(c, cx, h, n) == Result(Run(Machine(ToForce(c), <<>>, h), cx, n))

(***************************************************************************)
(* Forcing helpers, the codec and the driver answer with [err, v, h]: err  *)
(* is None or the fatal outcome, v the value, h the heap left.             *)
(***************************************************************************)
None == [tag |-> "None"]
Good(v, h) == [err |-> None, v |-> v, h |-> h]
Fail(err, h) == [err |-> err, v |-> <<>>, h |-> h]
Failed(r) == r.err # None

Reverse(q) == [i \in 1 .. Len(q) |-> q[Len(q) + 1 - i]]

IsNil(e) == e.tag = "Op" /\ e.name = "nil" /\ Len(e.v) = 0
IsPair(e) == e.tag = "Op" /\ e.name = "cons" /\ Len(e.v) = 2

RECURSIVE must_list_rev(_, _, _, _)

\* The tail is forced through its cell; the head is pushed as its cell
\* holds it once the tail has been walked, and is not forced.
must_list_rev(self, cx, h, n) ==
    Bind(eval(self, cx, h, n), LAMBDA e :
    IF IsErr(e.v) THEN Fail(e.v, e.h)
    ELSE IF e.v.tag # "Op" THEN Fail(Panic("not op"), e.h)
    ELSE IF IsNil(e.v) THEN Good(<<>>, e.h)
    ELSE IF IsPair(e.v) THEN
        Bind(ceval(e.v.v[2], cx, e.h, n), LAMBDA x1 :
        IF IsErr(x1.v) THEN Fail(x1.v, x1.h)
        ELSE Bind(must_list_rev(x1.v, cx, x1.h, n), LAMBDA res :
             IF Failed(res) THEN res
             ELSE Good(Append(res.v, res.h[e.v.v[1]].expr), res.h)))
    ELSE Fail(Panic("not list"), e.h))

must_list(self, cx, h, n) ==
    Bind(must_list_rev(self, cx, h, n), LAMBDA r :
    IF Failed(r) THEN r ELSE Good(Reverse(r.v), r.h))

\* Both coordinates are forced before either is required to be a Num.
must_point(self, cx, h, n) ==
    Bind(eval(self, cx, h, n), LAMBDA e :
    IF IsErr(e.v) THEN Fail(e.v, e.h)
    ELSE IF e.v.tag # "Op" THEN Fail(Panic("not op"), e.h)
    ELSE IF IsPair(e.v) THEN
        Bind(ceval(e.v.v[1], cx, e.h, n), LAMBDA x :
        IF IsErr(x.v) THEN Fail(x.v, x.h)
        ELSE Bind(ceval(e.v.v[2], cx, x.h, n), LAMBDA y :
             IF IsErr(y.v) THEN Fail(y.v, y.h)
             ELSE IF x.v.tag # "Num" THEN Fail(must_num(x.v), y.h)
             ELSE IF y.v.tag # "Num" THEN Fail(must_num(y.v), y.h)
             ELSE Good(<<x.v.n, y.v.n>>, y.h)))
    ELSE Fail(Panic("not vec"), e.h))

(***************************************************************************)
(* The modulation codec.  A bit-string is a sequence of 0s and 1s.         *)
(***************************************************************************)
RECURSIVE BitLen(_)
\* The number of significant bits of x >= 0.
BitLen(x) == IF x = 0 THEN 0 ELSE 1 + BitLen(x \div 2)

\* i64::leading_zeros of the two's complement pattern of x.
leading_zeros(x) == IF x < 0 THEN 0 ELSE IntBits - BitLen(x)

\* x >> i & 1 for 0 <= i < IntBits: the shift is arithmetic.
ShrBit(x, i) == (x \div (2 ^ i)) % 2

Ones(t) == [i \in 1 .. t |-> 1]

\* for i in (0..4 * t).rev() { res.push(n >> i & 1) }
MagnitudeBits(x, t) == [j \in 1 .. 4 * t |-> ShrBit(x, 4 * t - j)]

\* let t = (keta + 3) / 4 with keta = 64 - n.leading_zeros()
Quads(x) == ((IntBits - leading_zeros(x)) + 3) \div 4

\* The Num arm of modulate, [err, v] with v the bits: a is n (n >= 0) or
\* n.abs(), which may have panicked.
modulateNum(n, a) ==
    IF IsErr(a) THEN [err |-> a, v |-> <<>>]
    ELSE [err |-> None,
          v |-> (IF n >= 0 THEN <<0, 1>> ELSE <<1, 0>>)
                    \o Ones(Quads(a.n)) \o <<0>> \o MagnitudeBits(a.n, Quads(a.n))]

RECURSIVE modulate(_, _, _, _)

\* The head is forced through its cell; the tail is read from its cell once
\* the head has been written, and is reduced by the call that modulates it.
modulate(self, cx, h, n) ==
    Bind(eval(self, cx, h, n), LAMBDA e :
    IF IsErr(e.v) THEN Fail(e.v, e.h)
    ELSE IF e.v.tag = "Num" THEN
        Bind(modulateNum(e.v.n, IF e.v.n >= 0 THEN e.v ELSE RustAbs(cx.build, e.v.n)),
             LAMBDA s : IF Failed(s) THEN Fail(s.err, e.h) ELSE Good(s.v, e.h))
    ELSE IF e.v.tag # "Op" THEN Fail(Panic("not op"), e.h)
    ELSE IF IsNil(e.v) THEN Good(<<0, 0>>, e.h)
    ELSE IF IsPair(e.v) THEN
        Bind(ceval(e.v.v[1], cx, e.h, n), LAMBDA hd :
        IF IsErr(hd.v) THEN Fail(hd.v, hd.h)
        ELSE Bind(modulate(hd.v, cx, hd.h, n), LAMBDA a :
             IF Failed(a) THEN a
             ELSE Bind(modulate(a.h[e.v.v[2]].expr, cx, a.h, n), LAMBDA b :
                  IF Failed(b) THEN b
                  ELSE Good(<<1, 1>> \o a.v \o b.v, b.h))))
    ELSE Fail(Panic("unexpected op"), e.h))

\* The value of the bits at the places of the set: v |= 1 << i for each.
RECURSIVE SumPow(_)
SumPow(ps) ==
    IF ps = {} THEN 0
    ELSE Bind(CHOOSE q \in ps : TRUE, LAMBDA p : (2 ^ p) + SumPow(ps \ {p}))

\* The run of ones before the first zero: while it.next().unwrap() { t += 1 }
\* (t = -1: the bits ran out).
RECURSIVE CountOnes(_, _)
CountOnes(bits, t) ==
    IF bits = <<>> THEN [t |-> -1, rest |-> bits]
    ELSE IF Head(bits) = 1 THEN CountOnes(Tail(bits), t + 1)
    ELSE [t |-> t, rest |-> Tail(bits)]

\* The place of the j-th of the 4 * t magnitude bits, most significant first.
Place(j, t) == 4 * t - j

\* The magnitude loop: each bit is OR-ed in at its place.  A shift by the
\* width or more panics with overflow checks and is taken modulo the width
\* without.
demodulateMagnitude(bits, t, b) ==
    IF Len(bits) < 4 * t THEN Panic("unwrap on None")
    ELSE IF 4 * t > IntBits /\ b = "debug" THEN Panic("attempt to shift left with overflow")
    ELSE Num(Wrap(SumPow({Place(j, t) % IntBits : j \in {k \in 1 .. 4 * t : bits[k] = 1}})))

Read(err, v, h, rest) == [err |-> err, v |-> v, h |-> h, rest |-> rest]

\* The arm of an integer: the sign is (_, pos), the bits follow.
demodulateNum(pos, c, b, h) ==
    IF c.t < 0 THEN Read(Panic("unwrap on None"), <<>>, h, <<>>)
    ELSE Bind(demodulateMagnitude(c.rest, c.t, b), LAMBDA m :
         IF IsErr(m) THEN Read(m, <<>>, h, <<>>)
         ELSE Bind(IF pos THEN m ELSE RustNeg(b, m.n), LAMBDA v :
              IF IsErr(v) THEN Read(v, <<>>, h, <<>>)
              ELSE Read(None, v, h, SubSeq(c.rest, 4 * c.t + 1, Len(c.rest)))))

RECURSIVE demodulate_iter(_, _, _)

\* The result is [err, v, h, rest]: the term, the heap with the cells made
\* for the pairs, and the bits not read.
demodulate_iter(it, b, h) ==
    IF Len(it) < 2 THEN Read(Panic("unwrap on None"), <<>>, h, <<>>)
    ELSE IF it[1] = 0 /\ it[2] = 0 THEN Read(None, nil, h, SubSeq(it, 3, Len(it)))
    ELSE IF it[1] = 1 /\ it[2] = 1 THEN
        Bind(demodulate_iter(SubSeq(it, 3, Len(it)), b, h), LAMBDA x :
        IF Failed(x) THEN x
        ELSE Bind(demodulate_iter(x.rest, b, x.h), LAMBDA y :
             IF Failed(y) THEN y
             ELSE Bind(Alloc(Alloc(y.h, x.v), y.v), LAMBDA h2 :
                  Bind(cons(h2, Len(h2) - 1, Len(h2)), LAMBDA c :
                  Read(None, c.e, c.h, y.rest)))))
    ELSE demodulateNum(it[2] = 1, CountOnes(SubSeq(it, 3, Len(it)), 0), b, h)

demodulate(s, b, h) ==
    Bind(demodulate_iter(s, b, h), LAMBDA r :
    IF Failed(r) THEN Fail(r.err, r.h) ELSE Good(r.v, r.h))

demod(self, cx, h, n) ==
    Bind(modulate(self, cx, h, n), LAMBDA m :
    IF Failed(m) THEN m ELSE demodulate(m.v, cx.build, m.h))

(***************************************************************************)
(* Data values: an integer, nil, or a pair of data values.  ToText is the  *)
(* text a data value is written as (the text form of a state or a vector); *)
(* DataOf reads the data value back from a term without reducing it.       *)
(***************************************************************************)
DInt(n) == [d |-> "int", n |-> n]
DNil == [d |-> "nil"]
DCons(a, b) == [d |-> "cons", hd |-> a, tl |-> b]
DOther == [d |-> "other"]

RECURSIVE ToText(_)
ToText(v) ==
    CASE v.d = "int" -> <<Display[v.n]>>
      [] v.d = "nil" -> <<"nil">>
      [] v.d = "cons" -> <<"ap", "ap", "cons">> \o ToText(v.hd) \o ToText(v.tl)

DPair(x, y) == IF x = DOther \/ y = DOther THEN DOther ELSE DCons(x, y)

RECURSIVE DataOf(_, _, _)
DataOf(e, h, depth) ==
    IF depth = 0 THEN DOther
    ELSE CASE e.tag = "Num" -> DInt(e.n)
           [] e.tag = "Op" ->
                IF IsNil(e) THEN DNil
                ELSE IF IsPair(e)
                    THEN DPair(DataOf(h[e.v[1]].expr, h, depth - 1),
                               DataOf(h[e.v[2]].expr, h, depth - 1))
                ELSE DOther
           [] e.tag = "Ap" ->
                IF h[e.l].expr.tag = "Op" /\ h[e.l].expr.name = "cons" /\ Len(h[e.l].expr.v) = 1
                    THEN DPair(DataOf(h[h[e.l].expr.v[1]].expr, h, depth - 1),
                               DataOf(h[e.r].expr, h, depth - 1))
                ELSE IF h[e.l].expr.tag = "Ap" /\ h[h[e.l].expr.l].expr = Op("cons", <<>>)
                    THEN DPair(DataOf(h[h[e.l].expr.r].expr, h, depth - 1),
                               DataOf(h[e.r].expr, h, depth - 1))
                ELSE DOther
           [] OTHER -> DOther

\* The integers of the inputs: the small ones and the ends of the range.
SmallNums == (-MaxNum) .. MaxNum
EdgeNums == {MinInt, MinInt + 1, MaxInt}
Leaves == {DInt(n) : n \in SmallNums \cup EdgeNums} \cup {DNil}
Pairs == {DCons(a, b) : a \in Leaves, b \in Leaves}
ShortLeaves == {DInt(0), DInt(-1), DInt(MinInt), DNil}
ShortPairs == {DCons(x, y) : x \in ShortLeaves, y \in ShortLeaves}
Nested ==
    {DCons(a, b) : a \in ShortLeaves, b \in ShortPairs}
        \cup {DCons(a, b) : a \in ShortPairs, b \in ShortLeaves}
DataValues == {DInt(n) : n \in I64} \cup {DNil} \cup Pairs \cup Nested

RECURSIVE IntsOf(_)
IntsOf(v) ==
    CASE v.d = "int" -> {v.n}
      [] v.d = "cons" -> IntsOf(v.hd) \cup IntsOf(v.tl)
      [] OTHER -> {}

\* How deep a term that holds a data value of the inputs may be.
MaxDepth == 12

(***************************************************************************)
(* The codec on its own: a data value is written as text and parsed, then  *)
(* modulated, demodulated and modulated again (tests::test_demod and       *)
(* tests::test_modulate).                                                  *)
(***************************************************************************)
Cx == [env |-> env, build |-> build]

Idle == ToReturn(None)
NoOut == [e |-> None, bits |-> <<>>, back |-> None, bits2 |-> <<>>, err |-> None]

CodecInit ==
    /\ build \in Builds
    /\ env = <<>>
    /\ heap = <<>>
    /\ pc = "start"
    /\ arg \in DataValues
    /\ out = NoOut
    /\ hist = <<>>
    /\ ctl = Idle
    /\ stk = <<>>
    /\ fuel = 0

CodecParse ==
    /\ pc = "start"
    /\ \E p \in {parse_string(DOMAIN env, ToText(arg), heap)} :
           /\ heap' = p.h
           /\ out' = [out EXCEPT !.e = p.e]
           /\ pc' = "parsed"
    /\ UNCHANGED <<build, env, arg, hist, ctl, stk, fuel>>

CodecModulate ==
    /\ pc = "parsed"
    /\ \E m \in {modulate(out.e, Cx, heap, MaxFuel)} :
           /\ heap' = m.h
           /\ out' = [out EXCEPT !.bits = m.v, !.err = m.err]
           /\ pc' = IF Failed(m) THEN "modulate failed" ELSE "modulated"
    /\ UNCHANGED <<build, env, arg, hist, ctl, stk, fuel>>

CodecDemodulate ==
    /\ pc = "modulated"
    /\ \E r \in {demodulate(out.bits, build, heap)} :
           /\ heap' = r.h
           /\ out' = [out EXCEPT !.back = IF Failed(r) THEN None ELSE r.v, !.err = r.err]
           /\ pc' = IF Failed(r) THEN "demodulate failed" ELSE "demodulated"
    /\ UNCHANGED <<build, env, arg, hist, ctl, stk, fuel>>

CodecRemodulate ==
    /\ pc = "demodulated"
    /\ \E m \in {modulate(out.back, Cx, heap, MaxFuel)} :
           /\ heap' = m.h
           /\ out' = [out EXCEPT !.bits2 = m.v, !.err = m.err]
           /\ pc' = IF Failed(m) THEN "remodulate failed" ELSE "remodulated"
    /\ UNCHANGED <<build, env, arg, hist, ctl, stk, fuel>>

CodecNext == CodecParse \/ CodecModulate \/ CodecDemodulate \/ CodecRemodulate

SpecCodec == CodecInit /\ [][CodecNext]_vars

(***************************************************************************)
(* The encoding of section 4.3, stated on the bits: what a bit-string must *)
(* be to be the modulation of a data value.                                *)
(***************************************************************************)
RECURSIVE BinValue(_)
\* The number a sequence of bits, most significant first, is.
BinValue(b) ==
    IF b = <<>> THEN 0 ELSE 2 * BinValue(SubSeq(b, 1, Len(b) - 1)) + b[Len(b)]

\* The number of significant bits of x >= 0, and that number in nibbles.
SigBits(x) == CHOOSE k \in 0 .. IntBits : x < 2 ^ k /\ (k = 0 \/ 2 ^ (k - 1) <= x)
RoundUpQuads(k) == CHOOSE t \in 0 .. Nibbles : 4 * t >= k /\ 4 * t < k + 4

EncodesInt(bits, n) ==
    LET t == RoundUpQuads(SigBits(Abs(n)))
    IN  /\ Len(bits) = 3 + 5 * t
        /\ SubSeq(bits, 1, 2) = (IF n >= 0 THEN <<0, 1>> ELSE <<1, 0>>)
        /\ \A j \in 3 .. 2 + t : bits[j] = 1
        /\ bits[3 + t] = 0
        /\ BinValue(SubSeq(bits, 4 + t, 3 + 5 * t)) = Abs(n)

RECURSIVE EncodedLen(_)
\* The number of bits the encoding of a data value has.
EncodedLen(v) ==
    CASE v.d = "int" -> 3 + 5 * RoundUpQuads(SigBits(Abs(v.n)))
      [] v.d = "nil" -> 2
      [] v.d = "cons" -> 2 + EncodedLen(v.hd) + EncodedLen(v.tl)

RECURSIVE Encodes(_, _)
Encodes(bits, v) ==
    CASE v.d = "int" -> EncodesInt(bits, v.n)
      [] v.d = "nil" -> bits = <<0, 0>>
      [] v.d = "cons" ->
            /\ Len(bits) = EncodedLen(v)
            /\ SubSeq(bits, 1, 2) = <<1, 1>>
            /\ Encodes(SubSeq(bits, 3, 2 + EncodedLen(v.hd)), v.hd)
            /\ Encodes(SubSeq(bits, 3 + EncodedLen(v.hd), Len(bits)), v.tl)

CodecFailed == pc \in {"modulate failed", "demodulate failed", "remodulate failed"}

\* C1: for every data value v, the codec returns at every step of the round
\* trip, demodulate(modulate(v)) is the data value v, and modulating that
\* again gives the bits of modulate(v).
CodecRoundTrip ==
    /\ ~CodecFailed
    /\ pc = "demodulated" => DataOf(out.back, heap, MaxDepth) = arg
    /\ pc = "remodulated" => out.bits2 = out.bits

\* C1, where the codec returns: the round trip of every data value whose
\* modulation returned is the identity, and the codec fails only in
\* modulate, with overflow checks, on a value that holds the least integer.
CodecRoundTripWhenReturned ==
    /\ pc = "demodulated" => DataOf(out.back, heap, MaxDepth) = arg
    /\ pc = "remodulated" => out.bits2 = out.bits
    /\ CodecFailed => pc = "modulate failed" /\ build = "debug" /\ MinInt \in IntsOf(arg)

CodecRoundTripReached ==
    /\ pc = "remodulated"
    /\ arg = DCons(DInt(-1), DCons(DInt(MinInt), DNil))
    /\ out.bits2 = out.bits

\* C2: for every data value, modulate returns exactly its encoding: an
\* integer n is its sign (01, or 10 if n < 0), t ones and a zero, and |n| in
\* exactly 4t bits, most significant first, t the nibbles of |n|; nil is 00;
\* a pair is 11, the encoding of its head, the encoding of its tail.
CodecEncoding ==
    /\ pc # "modulate failed"
    /\ pc = "modulated" =>
        /\ Encodes(out.bits, arg)
        /\ arg = DInt(0) => out.bits = <<0, 1, 0>>
        /\ arg = DInt(1) => out.bits = <<0, 1, 1, 0, 0, 0, 0, 1>>
        /\ arg = DInt(-1) => out.bits = <<1, 0, 1, 0, 0, 0, 0, 1>>

\* C2, where modulate returns: the bits are exactly the encoding.
CodecEncodingWhenReturned ==
    /\ pc = "modulated" => Encodes(out.bits, arg)
    /\ pc = "modulate failed" => build = "debug" /\ MinInt \in IntsOf(arg)

CodecEncodingReached ==
    /\ pc = "modulated"
    /\ arg = DInt(MinInt)
    /\ build = "release"
    /\ Encodes(out.bits, arg)

(***************************************************************************)
(* The library.  galaxy.txt is a list of lines `name = expr`; its names    *)
(* begin with ':' and its definitions refer to each other, and to          *)
(* themselves, by name.  The model's library has a partial application     *)
(* (:1), a recursive function (:2, the power of two), a definition over    *)
(* other definitions (:3), and a definition that needs its own value (:4). *)
(***************************************************************************)
Line(name, expr) == [name |-> name, expr |-> expr]

Library ==
    <<Line(":1", <<"ap", "add", "1">>),
      Line(":2", <<"ap", "ap", "s", "ap", "ap", "c", "ap", "eq", "0", "1",
                   "ap", "ap", "b", "ap", "mul", "2",
                   "ap", "ap", "b", ":2", "ap", "add", "-1">>),
      Line(":3", <<"ap", ":1", "ap", ":1", "0">>),
      Line(":4", <<"ap", "i", ":4">>)>>

\* env.insert(name, e)
Insert(e, name, x) == [k \in DOMAIN e \cup {name} |-> IF k = name THEN x ELSE e[k]]

RECURSIVE LoadLines(_, _, _)
\* for line in galaxy.txt: env.insert(name, parse_string(&env, expr))
LoadLines(lines, e, h) ==
    IF lines = <<>> THEN [env |-> e, h |-> h]
    ELSE Bind(parse_string(DOMAIN e, Head(lines).expr, h), LAMBDA p :
         LoadLines(Tail(lines), Insert(e, Head(lines).name, p.e), p.h))

default_env == LoadLines(Library, <<>>, <<>>)

(***************************************************************************)
(* The evaluator on its own, as tests::test drives it: two texts are       *)
(* parsed in a fresh default_env(); the first term is evaluated, then its  *)
(* result is evaluated again, then the second term is evaluated.  Each     *)
(* evaluation runs the machine step by step.                               *)
(***************************************************************************)
Case(kind, lhs, rhs) == [kind |-> kind, lhs |-> lhs, rhs |-> rhs]

\* The pairs of tests::test (81740 and 42 but for the width).
SourceTests ==
    {Case("test", <<"ap", "ap", "add", "1", "2">>, <<"3">>),
     Case("test", <<"ap", "ap", "add", "1", "ap", "ap", "add", "2", "3">>, <<"6">>),
     Case("test", <<"ap", "ap", "t", "1", ":0">>, <<"1">>),
     Case("test", <<"ap", "ap", "f", ":0", "1">>, <<"1">>),
     Case("test", <<"(", ")">>, <<"nil">>),
     Case("test", <<"(", "1", ",", "2", ")">>,
                  <<"ap", "ap", "cons", "1", "ap", "ap", "cons", "2", "nil">>),
     Case("test", <<"ap", "car", "(", "1", ",", "2", ")">>, <<"1">>),
     Case("test", <<"ap", "ap", "ap", "s", "mul", "ap", "add", "1", "6">>, <<"42">>),
     Case("test", <<"ap", "ap", "ap", "c", "add", "1", "2">>, <<"3">>),
     Case("test", <<"ap", "ap", "ap", "c", "i", "1", "ap", "i", "ap", "add", "1">>, <<"2">>)}

\* Evaluations through the library, and ones that do not end well.
LibraryTests ==
    {Case("lib", <<":3">>, <<"2">>),
     Case("lib", <<"ap", ":2", "3">>, <<"8">>),
     Case("lib", <<"ap", ":1", ":3">>, <<"3">>),
     Case("lib", <<":4">>, <<":4">>),
     Case("lib", <<"ap", "ap", "ap", "s", "i", "i", "ap", "ap", "s", "i", "i">>, <<"0">>),
     Case("lib", <<"ap", "neg", Display[MinInt]>>, <<Display[MinInt]>>),
     Case("lib", <<"ap", "ap", "add", Display[MaxInt], "1">>, <<Display[MinInt]>>),
     Case("lib", <<"ap", "ap", "mul", Display[MinInt], "-1">>, <<Display[MinInt]>>),
     Case("lib", <<"ap", "isnil", "t">>, <<"f">>),
     Case("lib", <<"ap", "1", "2">>, <<"1">>),
     Case("lib", <<"ap", "ap", "lt", "1", "nil">>, <<"f">>),
     Case("lib", <<"ap", "mod", "1">>, <<"1">>)}

NoResults == [e1 |-> None, e2 |-> None, r |-> <<>>, phase |-> 0]

\* The term the next evaluation is called on.
Target == IF out.phase = 0 THEN out.e1 ELSE IF out.phase = 1 THEN out.r[1] ELSE out.e2

EvalParse ==
    /\ pc = "start"
    /\ \E p1 \in {parse_string(DOMAIN env, arg.lhs, heap)} :
       \E p2 \in {parse_string(DOMAIN env, arg.rhs, p1.h)} :
           /\ heap' = p2.h
           /\ out' = [out EXCEPT !.e1 = p1.e, !.e2 = p2.e]
           /\ pc' = IF IsErr(p1.e) \/ IsErr(p2.e) THEN "parse failed" ELSE "parsed"
    /\ UNCHANGED <<build, env, arg, hist, ctl, stk, fuel>>

EvalCall ==
    /\ pc \in {"parsed", "returned"}
    /\ ctl' = ToEval(Target)
    /\ stk' = <<>>
    /\ fuel' = MaxFuel
    /\ out' = [out EXCEPT !.phase = out.phase + 1]
    /\ pc' = "running"
    /\ UNCHANGED <<build, env, heap, arg, hist>>

\* The machine moves to m.
Move(m) ==
    /\ ctl' = m.ctl
    /\ stk' = m.stk
    /\ heap' = m.h
    /\ fuel' = fuel - 1
    /\ UNCHANGED <<build, env, pc, arg, out, hist>>

EvalStep ==
    /\ pc = "running" /\ fuel > 0 /\ ctl.op = "eval"
    /\ \E m \in {stepEval(ctl.e, stk, heap, Cx)} : Move(m)

\* hist: whether a cell has been forced while its own evaluation was still
\* under way (a history variable; the code keeps no such record).
Reentered(n, s) == \E i \in DOMAIN s : s[i] = FrameCache(n)

ForceStep ==
    /\ pc = "running" /\ fuel > 0 /\ ctl.op = "force"
    /\ \E m \in {stepForce(ctl.n, stk, heap)} :
           /\ ctl' = m.ctl
           /\ stk' = m.stk
           /\ heap' = m.h
    /\ fuel' = fuel - 1
    /\ hist' = [hist EXCEPT !.reentry = hist.reentry \/ Reentered(ctl.n, stk)]
    /\ UNCHANGED <<build, env, pc, arg, out>>

ReturnStep ==
    /\ pc = "running" /\ fuel > 0 /\ ctl.op = "ret" /\ stk # <<>>
    /\ \E m \in {stepReturn(ctl.v, stk[Len(stk)], SubSeq(stk, 1, Len(stk) - 1), heap, Cx)} :
           Move(m)

EvalReturn ==
    /\ pc = "running" /\ ctl.op = "ret" /\ stk = <<>>
    /\ out' = [out EXCEPT !.r = Append(out.r, ctl.v)]
    /\ pc' = IF out.phase = 3 THEN "done" ELSE "returned"
    /\ UNCHANGED <<build, env, heap, arg, hist, ctl, stk, fuel>>

EvalPanic ==
    /\ pc = "running" /\ ctl.op = "dead"
    /\ pc' = "panicked"
    /\ UNCHANGED <<build, env, heap, arg, out, hist, ctl, stk, fuel>>

\* The evaluation has not returned within the bound.
EvalCutOff ==
    /\ pc = "running" /\ fuel = 0 /\ ~Halted(Machine(ctl, stk, heap))
    /\ pc' = "cut off"
    /\ UNCHANGED <<build, env, heap, arg, out, hist, ctl, stk, fuel>>

\* The argument terms of the combinator laws.
Fun3 == {<<"add">>, <<"t">>, <<"cons">>, <<"i">>, <<":0">>}
Arg3 == {<<"ap", "add", "1">>, <<"i">>, <<"nil">>, <<":0">>, <<":4">>}
Val3 == {<<"1">>, <<"nil">>, <<":0">>, <<"ap", "ap", "cons", "1", "nil">>}
Arg2 ==
    {<<"1">>, <<"add">>, <<"ap", "add", "1">>, <<"nil">>, <<":0">>, <<":4">>,
     <<"ap", "ap", "cons", "1", "nil">>, <<":3">>}

\* Both sides of each law of section 8, as texts.
LawCases ==
    {Case("law", <<"ap", "ap", "ap", "s">> \o x \o y \o z,
                 <<"ap", "ap">> \o x \o z \o <<"ap">> \o y \o z) :
        x \in Fun3, y \in Arg3, z \in Val3}
    \cup {Case("law", <<"ap", "ap", "ap", "c">> \o x \o y \o z,
                      <<"ap", "ap">> \o x \o z \o y) :
        x \in Fun3, y \in Arg3, z \in Val3}
    \cup {Case("law", <<"ap", "ap", "ap", "b">> \o x \o y \o z,
                      <<"ap">> \o x \o <<"ap">> \o y \o z) :
        x \in Fun3, y \in Arg3, z \in Val3}
    \cup {Case("law", <<"ap", "i">> \o x, x) : x \in Arg2}
    \cup {Case("law", <<"ap", "ap", "t">> \o x \o y, x) : x \in Arg2, y \in Arg2}
    \cup {Case("law", <<"ap", "ap", "f">> \o x \o y, y) : x \in Arg2, y \in Arg2}
    \cup {Case("law", <<"ap", "car", "ap", "ap", "cons">> \o x \o y, x) : x \in Arg2, y \in Arg2}
    \cup {Case("law", <<"ap", "cdr", "ap", "ap", "cons">> \o x \o y, y) : x \in Arg2, y \in Arg2}
    \cup {Case("law", <<"ap", "isnil", "nil">>, <<"t">>)}
    \cup {Case("law", <<"ap", "isnil", "ap", "ap", "cons">> \o x \o y, <<"f">>) :
        x \in Arg2, y \in Arg2}

\* div a b for the small integers and the ends of the range.
DivCases ==
    {Case("div", <<"ap", "ap", "div", Display[a], Display[b]>>, <<Display[a]>>) :
        a \in SmallNums \cup EdgeNums, b \in SmallNums \cup EdgeNums}

\* t x y and f y x with y a name that is in no environment.
Unbound == {":0", "x0"}
Chosen ==
    {<<"1">>, <<"nil">>, <<"ap", "add", "1">>, <<":3">>, <<":4">>,
     <<"ap", "ap", "cons", "1", "nil">>, <<"ap", "1", "2">>}
LazyCases ==
    {Case("lazy", <<"ap", "ap", "t">> \o x \o <<y>>, x) : x \in Chosen, y \in Unbound}
    \cup {Case("lazy", <<"ap", "ap", "f", y>> \o x, x) : x \in Chosen, y \in Unbound}

EvalCases == SourceTests \cup LibraryTests \cup LawCases \cup DivCases \cup LazyCases

EvalInit ==
    /\ build \in Builds
    /\ env = default_env.env
    /\ heap = default_env.h
    /\ pc = "start"
    /\ arg \in EvalCases
    /\ out = NoResults
    /\ hist = [reentry |-> FALSE]
    /\ ctl = Idle
    /\ stk = <<>>
    /\ fuel = 0

EvalNext ==
    \/ EvalParse \/ EvalCall \/ EvalStep \/ ForceStep \/ ReturnStep
    \/ EvalReturn \/ EvalPanic \/ EvalCutOff

SpecEval == EvalInit /\ [][EvalNext]_vars

(***************************************************************************)
(* What the evaluator is required to do, stated on the runs of SpecEval.   *)
(***************************************************************************)
\* The arities of the table of section 3.
SpecArity ==
    [p \in Primitive |->
        IF p \in {"s", "c", "b", "cons"} THEN 3
        ELSE IF p \in {"add", "mul", "div", "eq", "lt", "t", "f"} THEN 2
        ELSE 1]

IsWhnf(e) == e.tag = "Num" \/ (e.tag = "Op" /\ Len(e.v) < SpecArity[e.name])

\* How deep a result is written out.
NormDepth == 6

RECURSIVE NormalForm(_, _, _, _), NormalArgs(_, _, _, _, _)

\* What a result can be observed to be: its text with every argument of its
\* head forced and written out in the same way, left to right, up to the
\* first argument whose evaluation is fatal ("!": nothing is observed after
\* it); "?" stands for a term that is not in weak head normal form.
Seen(t, h, dead) == [t |-> t, h |-> h, dead |-> dead]

NormalArgs(res, v, cx, h, d) ==
    IF v = <<>> THEN Seen(res, h, FALSE)
    ELSE Bind(ceval(Head(v), cx, h, MaxFuel), LAMBDA r :
         Bind(NormalForm(r.v, cx, r.h, d - 1), LAMBDA n :
         IF n.dead THEN Seen(<<"ap">> \o res \o n.t, n.h, TRUE)
         ELSE NormalArgs(<<"ap">> \o res \o n.t, Tail(v), cx, n.h, d)))

NormalForm(e, cx, h, d) ==
    IF IsErr(e) THEN Seen(<<"!">>, h, TRUE)
    ELSE IF d = 0 THEN Seen(<<"...">>, h, FALSE)
    ELSE IF e.tag = "Num" THEN Seen(<<Display[e.n]>>, h, FALSE)
    ELSE IF e.tag = "Op" THEN NormalArgs(<<e.name>>, e.v, cx, h, d)
    ELSE Seen(<<"?">> \o fmt(e, h, 3), h, FALSE)

Same(a, b) == NormalForm(a, Cx, heap, NormDepth).t = NormalForm(b, Cx, heap, NormDepth).t

\* C6: for every instance of a combinator law (s, c, b, i, t, f, car and
\* cdr of a cons, isnil of nil and of a cons) both of whose sides evaluate
\* without error, the two results are the same value.
LawsHold == pc = "done" /\ arg.kind = "law" => Same(out.r[1], out.r[3])

LawsReached ==
    /\ pc = "done"
    /\ arg = Case("law", <<"ap", "ap", "ap", "s", "add", "ap", "add", "1", "1">>,
                         <<"ap", "ap", "add", "1", "ap", "ap", "add", "1", "1">>)
    /\ out.r[1] = Num(3)
    /\ out.r[3] = Num(3)

\* The operands of a div case.
Dividend == ParseI64[arg.lhs[4]]
Divisor == ParseI64[arg.lhs[5]]

\* q is a / b rounded toward zero: |q| is the floor of |a| / |b| and q has
\* the sign of the exact quotient.
Truncated(q, a, b) ==
    /\ Abs(q) * Abs(b) <= Abs(a)
    /\ Abs(a) < (Abs(q) + 1) * Abs(b)
    /\ q > 0 => (a > 0) = (b > 0)
    /\ q < 0 => (a > 0) # (b > 0)

DivReturned(a, b) ==
    /\ pc \notin {"panicked", "cut off", "parse failed"}
    /\ Len(out.r) >= 1 => out.r[1].tag = "Num" /\ Truncated(out.r[1].n, a, b)

DivExamples ==
    /\ Dividend = 6 /\ Divisor = -2 => out.r[1] = Num(-3)
    /\ Dividend = 5 /\ Divisor = -3 => out.r[1] = Num(-1)
    /\ Dividend = -5 /\ Divisor = 3 => out.r[1] = Num(-1)
    /\ Dividend = -5 /\ Divisor = -3 => out.r[1] = Num(1)

\* C7: for all integers a and b with b # 0, the evaluation of div a b
\* returns the quotient of a by b rounded toward zero.
DivTruncates ==
    arg.kind = "div" /\ Divisor # 0 =>
        /\ DivReturned(Dividend, Divisor)
        /\ Len(out.r) >= 1 => DivExamples

\* C7 but for the one quotient that is no i64: for all a and b with b # 0
\* other than a the least integer and b = -1, the evaluation of div a b
\* returns the quotient rounded toward zero; the evaluation of div MIN -1
\* is fatal in every build.
DivTruncatesButMin ==
    arg.kind = "div" /\ Divisor # 0 =>
        IF Dividend = MinInt /\ Divisor = -1
        THEN /\ out.r = <<>>
             /\ pc \notin {"returned", "done", "cut off"}
             /\ ctl.op = "dead" => ctl.v = Panic("attempt to divide with overflow")
        ELSE /\ DivReturned(Dividend, Divisor)
             /\ Len(out.r) >= 1 => DivExamples

DivTruncatesReached ==
    /\ pc = "done"
    /\ arg.kind = "div" /\ Dividend = -5 /\ Divisor = 3
    /\ out.r[1] = Num(-1)

\* C8: whenever an evaluation returns, its result is a Num or an Op with
\* fewer arguments than its arity; every Op the evaluator is called on has
\* at most arity-many arguments and is rewritten exactly when it has
\* arity-many; and the evaluation of a result returns that result.
EvalToWhnf ==
    /\ \A i \in DOMAIN out.r : IsWhnf(out.r[i])
    /\ Len(out.r) >= 2 => out.r[2] = out.r[1]
    /\ pc = "running" /\ ctl.op = "eval" /\ ctl.e.tag = "Op" =>
        /\ Len(ctl.e.v) <= SpecArity[ctl.e.name]
        /\ (stepEval(ctl.e, stk, heap, Cx) = Machine(ToReturn(ctl.e), stk, heap))
            <=> Len(ctl.e.v) # SpecArity[ctl.e.name]

\* C8, as long as no cell has been forced while its own evaluation was
\* under way.
EvalToWhnfUnlessReentered == hist.reentry \/ EvalToWhnf

\* The cell of the argument that t (the second) or f (the first) discards,
\* and the name it holds.
DiscardedNode ==
    LET p == parse_string(DOMAIN env, arg.lhs, default_env.h)
    IN  IF arg.lhs[3] = "t" THEN p.e.r ELSE p.h[p.e.l].expr.r
DiscardedName == IF arg.lhs[3] = "t" THEN arg.lhs[Len(arg.lhs)] ELSE arg.lhs[4]

\* C9: the evaluation of t x y, and of f y x, with y a name that is not in
\* the environment, never demands y (the cell of y is never forced and is
\* left as it was parsed); it is fatal only if the evaluation of x is, and
\* where it returns, it returns the value of x.
LazyInDiscarded ==
    arg.kind = "lazy" /\ pc # "start" =>
        /\ heap[DiscardedNode] = Cell(Var(DiscardedName))
        /\ ctl # ToForce(DiscardedNode)
        /\ ctl # ToEval(Var(DiscardedName))
        /\ pc # "cut off"
        /\ pc = "panicked" => arg.rhs = <<"ap", "1", "2">> /\ ctl.v = Panic("not op or func")
        /\ pc = "done" => Same(out.r[1], out.r[3])

LazyReached ==
    /\ pc = "done"
    /\ arg = Case("lazy", <<"ap", "ap", "f", "x0", ":3">>, <<":3">>)
    /\ out.r[1] = Num(2)
    /\ heap[DiscardedNode] = Cell(Var("x0"))

\* The cells of the library, as default_env() made them.
LibraryNodes == DOMAIN default_env.h
Loaded(n) == default_env.h[n]

NamesLibrary(text) == \E i \in DOMAIN text : text[i] \in DOMAIN env

CachedNodes == {n \in DOMAIN heap : heap[n].cached}
CachedHoldsWhnf == \A n \in CachedNodes : IsWhnf(heap[n].expr)

\* A flag, once set, stays set.
FlagsNeverReset ==
    [][\A n \in CachedNodes : n \in DOMAIN heap' /\ heap'[n].cached]_vars

\* C11: in every state of an evaluation, every cell whose flag is set holds
\* a Num or an Op with fewer arguments than its arity, and no flag that is
\* set is ever reset.
CachedIsFinal == []CachedHoldsWhnf /\ FlagsNeverReset

\* C11 as the code keeps it: while no cell has been forced during its own
\* evaluation, a flagged cell that does not hold a term in weak head normal
\* form is one whose evaluation is still under way or was ended by a panic
\* or by the bound on steps.
CachedHoldsWhnfOrUnderWay ==
    ~hist.reentry =>
        \A n \in CachedNodes :
            \/ IsWhnf(heap[n].expr)
            \/ pc = "running" /\ Reentered(n, stk)
            \/ pc \in {"panicked", "cut off"}

\* A cell flagged with its evaluation under way, holding an application.
CachedUnderWayReached ==
    /\ pc = "running" /\ ~hist.reentry
    /\ \E n \in CachedNodes : heap[n].expr.tag = "Ap" /\ Reentered(n, stk)

(***************************************************************************)
(* G::interact.  One round is the body of the loop up to its return or its *)
(* call of send; the reply of the server is any bit-string.                *)
(***************************************************************************)
\* format!("ap ap {} {} {}", protocol, state, vector)
input(protocol, state, vector) == <<"ap", "ap", protocol>> \o state \o vector

\* format!("ap ap vec {} {}", x, y)
vec(x, y) == <<"ap", "ap", "vec", Display[x], Display[y]>>

\* Ord for (i64, i64)
Less(p, q) == p[1] < q[1] \/ (p[1] = q[1] /\ p[2] < q[2])

RECURSIVE InsertSorted(_, _), SortFrom(_, _)
InsertSorted(p, l) ==
    IF l = <<>> THEN <<p>>
    ELSE IF Less(p, Head(l)) THEN <<p>> \o l
    ELSE <<Head(l)>> \o InsertSorted(p, Tail(l))
SortFrom(acc, l) == IF l = <<>> THEN acc ELSE SortFrom(InsertSorted(Head(l), acc), Tail(l))

\* l.sort(): ascending, equal points kept.
sort(l) == SortFrom(<<>>, l)

RECURSIVE points(_, _, _, _, _), images(_, _, _, _, _)

\* l.must_list(env).into_iter().map(|v| v.must_point(env)).collect()
points(vs, acc, cx, h, n) ==
    IF vs = <<>> THEN Good(acc, h)
    ELSE Bind(must_point(Head(vs), cx, h, n), LAMBDA q :
         IF Failed(q) THEN q ELSE points(Tail(vs), Append(acc, q.v), cx, q.h, n))

\* Each inner list is taken apart, turned into points and sorted before the
\* next one is touched.
images(ls, acc, cx, h, n) ==
    IF ls = <<>> THEN Good(acc, h)
    ELSE Bind(must_list(Head(ls), cx, h, n), LAMBDA l :
         IF Failed(l) THEN l
         ELSE Bind(points(l.v, <<>>, cx, l.h, n), LAMBDA ps :
              IF Failed(ps) THEN ps
              ELSE images(Tail(ls), Append(acc, sort(ps.v)), cx, ps.h, n)))

\* What a round comes to: a panic, a return (flag 0) or a request (flag 1);
\* flag is the arm of the match that was entered, -1 if none was.
Turn(err, h, flag, state, imgs, req) ==
    [err |-> err, h |-> h, flag |-> flag, state |-> state, images |-> imgs, request |-> req]
Fatal(err, h, flag, state) == Turn(err, h, flag, state, <<>>, <<>>)

\* match flag.must_num() { 0 => .., 1 => .., _ => panic!(..) }: the flag is
\* the term must_list handed out.
dispatch(flag, state, data, cx, h, n) ==
    IF flag.tag # "Num" THEN Fatal(must_num(flag), h, -1, state)
    ELSE IF flag.n = 0 THEN
        Bind(must_list(data, cx, h, n), LAMBDA ls :
        IF Failed(ls) THEN Fatal(ls.err, ls.h, 0, state)
        ELSE Bind(images(ls.v, <<>>, cx, ls.h, n), LAMBDA im :
             IF Failed(im) THEN Fatal(im.err, im.h, 0, state)
             ELSE Turn(None, im.h, 0, state, im.v, <<>>)))
    ELSE IF flag.n = 1 THEN
        Bind(modulate(data, cx, h, n), LAMBDA m :
        IF Failed(m) THEN Fatal(m.err, m.h, 1, state)
        ELSE Turn(None, m.h, 1, state, <<>>, m.v))
    ELSE Fatal(Panic("unexpected flag"), h, -1, state)

\* The body of the loop: the input is parsed and evaluated, the result taken
\* apart, the state rewritten, the flag dispatched on.
round(protocol, state, vector, cx, h, n) ==
    Bind(parse_string(DOMAIN cx.env, input(protocol, state, vector), h), LAMBDA p :
    IF IsErr(p.e) THEN Fatal(p.e, p.h, -1, state)
    ELSE Bind(eval(p.e, cx, p.h, n), LAMBDA e :
    IF IsErr(e.v) THEN Fatal(e.v, e.h, -1, state)
    ELSE Bind(must_list(e.v, cx, e.h, n), LAMBDA v :
    IF Failed(v) THEN Fatal(v.err, v.h, -1, state)
    ELSE IF Len(v.v) < 3 THEN Fatal(Panic("removal index out of bounds"), v.h, -1, state)
    ELSE Bind(demod(v.v[2], cx, v.h, n), LAMBDA d :
    IF Failed(d) THEN Fatal(d.err, d.h, -1, state)
    ELSE dispatch(v.v[1], fmt(d.v, d.h, MaxDepth), v.v[3], cx, d.h, n)))))

\* vector = format!("{}", Expr::demodulate(&reply))
receive(reply, b, h) ==
    Bind(demodulate(reply, b, h), LAMBDA r :
    IF Failed(r) THEN r ELSE Good(fmt(r.v, r.h, MaxDepth), r.h))

(***************************************************************************)
(* The calls of interact the model makes.  A protocol is a definition put  *)
(* into the environment, as tests::test_statelessdraw does.                *)
(***************************************************************************)
\* The rounds after which a call counts as not returning.
MaxRounds == 3

statelessdraw ==
    <<"ap", "ap", "c", "ap", "ap", "b", "b", "ap", "ap", "b", "ap", "b",
      "ap", "cons", "0", "ap", "ap", "c", "ap", "ap", "b", "b", "cons",
      "ap", "ap", "c", "cons", "nil", "ap", "ap", "c", "ap", "ap", "b",
      "cons", "ap", "ap", "c", "cons", "nil", "nil">>

\* relay s v = (eq 0 s) (1, 1, v) (0, s, ((v))): state 0 sends the vector
\* and goes to state 1, any other state draws the vector and returns.
relay ==
    <<"ap", "ap", "s", "ap", "ap", "b", "s", "ap", "ap", "c", "ap", "ap",
      "b", "b", "ap", "eq", "0", "ap", "ap", "b", "ap", "cons", "1", "ap",
      "ap", "b", "ap", "cons", "1", "ap", "ap", "c", "cons", "nil", "ap",
      "ap", "b", "ap", "b", "ap", "cons", "0", "ap", "ap", "c", "ap", "ap",
      "b", "b", "cons", "ap", "ap", "c", "ap", "ap", "b", "cons", "ap",
      "ap", "c", "ap", "ap", "b", "cons", "ap", "ap", "c", "cons", "nil",
      "nil", "nil">>

RECURSIVE ListText(_)
\* The text of a list of texts: ( a , b , c )
ListText(ts) ==
    IF ts = <<>> THEN <<"(", ")">>
    ELSE IF Len(ts) = 1 THEN <<"(">> \o ts[1] \o <<")">>
    ELSE <<"(">> \o ts[1] \o <<",">> \o Tail(ListText(Tail(ts)))

PointText(q) == vec(q[1], q[2])
ImageText(im) == ListText([i \in DOMAIN im |-> PointText(im[i])])
ImagesText(ims) == ListText([i \in DOMAIN ims |-> ImageText(ims[i])])

\* fixed f s d: the protocol that answers every round with (f, s, d).
fixed(f, s, d) == <<"ap", "t", "ap", "t">> \o ListText(<<f, s, d>>)

\* The flags, states and data of the fixed protocols.
FlagTexts ==
    {<<"0">>, <<"1">>, <<"2">>, <<"nil">>, <<"ap", "i", "0">>, <<"ap", "ap", "add", "0", "1">>}
StateValues == {DNil, DInt(1), DInt(MinInt), DCons(DInt(0), DCons(DNil, DNil))}
Pictures ==
    {<<>>,
     <<<<<<1, 0>>>>>>,
     <<<<<<2, 1>>, <<1, 5>>, <<2, 1>>, <<1, -3>>>>, <<>>, <<<<0, 0>>, <<-1, 7>>>>>>,
     <<<<<<MaxInt, MinInt>>, <<MinInt, MaxInt>>, <<MinInt, MinInt>>>>>>}
\* x and y of a call are i32: half the width of the integers of terms.
I32 == -(2 ^ (IntBits \div 2 - 1)) .. 2 ^ (IntBits \div 2 - 1) - 1
Starts == {q \in {<<1, 0>>, <<-2, 3>>, <<-8, 7>>} : q[1] \in I32 /\ q[2] \in I32}

Call(kind, protocol, state, start) ==
    [kind |-> kind, protocol |-> protocol, state |-> state, start |-> start]

DrawCalls == {Call("draw", statelessdraw, <<"nil">>, q) : q \in Starts}
RelayCalls == {Call("relay", relay, <<"0">>, q) : q \in Starts}
FixedCalls ==
    {[kind |-> "fixed", protocol |-> fixed(f, ToText(s), ImagesText(d)),
      state |-> <<"nil">>, start |-> <<0, 0>>, flag |-> f, next |-> s, data |-> d] :
        f \in FlagTexts, s \in StateValues, d \in Pictures}
\* A protocol whose data is no list of lists of points.
BadCalls ==
    {Call("bad", fixed(<<"0">>, <<"nil">>, <<"5">>), <<"nil">>, <<0, 0>>),
     Call("bad", fixed(<<"0">>, <<"nil">>, ListText(<<ListText(<<<<"nil">>>>)>>)),
          <<"nil">>, <<0, 0>>),
     Call("bad", <<"ap", "t", "ap", "t", "(", "0", ",", "nil", ")">>, <<"nil">>, <<0, 0>>),
     Call("bad", <<"ap", "t", "ap", "t", "1">>, <<"nil">>, <<0, 0>>)}

InteractCalls == DrawCalls \cup RelayCalls \cup FixedCalls \cup BadCalls

\* The replies of the server: the modulations of nil, 0 and (1 . 2), and a
\* bit-string that ends in the middle of a pair.
Replies ==
    {<<0, 0>>,
     <<0, 1, 0>>,
     <<1, 1, 0, 1, 1, 0, 0, 0, 0, 1, 0, 1, 1, 0, 0, 0, 1, 0>>,
     <<1, 1, 0, 1, 1, 0, 0, 0, 0, 1>>}

\* g.env.insert(name, parse_string(&g.env, text)) on a fresh default_env().
Installed(name, text) ==
    Bind(parse_string(DOMAIN default_env.env, text, default_env.h), LAMBDA p :
    [env |-> Insert(default_env.env, name, p.e), h |-> p.h])

NoRounds == [rounds |-> <<>>, sends |-> <<>>, replies |-> <<>>]
Started(state, start) ==
    [state |-> state, vector |-> vec(start[1], start[2]), images |-> <<>>,
     request |-> <<>>, err |-> None]

InteractInit ==
    /\ build \in Builds
    /\ arg \in InteractCalls
    /\ env = Installed("protocol", arg.protocol).env
    /\ heap = Installed("protocol", arg.protocol).h
    /\ pc = "round"
    /\ out = Started(arg.state, arg.start)
    /\ hist = NoRounds
    /\ ctl = Idle
    /\ stk = <<>>
    /\ fuel = 0

\* One pass of the loop.  hist keeps what each round was given and what it
\* came to, and every request that was made.
InteractRound ==
    /\ pc = "round" /\ Len(hist.rounds) < MaxRounds
    /\ \E t \in {round("protocol", out.state, out.vector, Cx, heap, MaxFuel)} :
           /\ heap' = t.h
           /\ out' = [out EXCEPT !.state = t.state, !.images = t.images,
                                  !.request = t.request, !.err = t.err]
           /\ pc' = IF t.err # None THEN "panicked"
                    ELSE IF t.flag = 0 THEN "returned" ELSE "sending"
           /\ hist' = [hist EXCEPT
                  !.rounds = Append(@, [input |-> input("protocol", out.state, out.vector),
                                        flag |-> t.flag, state |-> t.state]),
                  !.sends = IF t.err = None /\ t.flag = 1 THEN Append(@, t.request) ELSE @]
    /\ UNCHANGED <<build, env, arg, ctl, stk, fuel>>

\* The reply arrives: send returns and the loop goes on.
ServerReply ==
    /\ pc = "sending"
    /\ \E reply \in Replies :
       \E r \in {receive(reply, build, heap)} :
           /\ heap' = r.h
           /\ out' = [out EXCEPT !.vector = IF Failed(r) THEN @ ELSE r.v,
                                  !.request = <<>>, !.err = r.err]
           /\ pc' = IF Failed(r) THEN "panicked" ELSE "round"
           /\ hist' = [hist EXCEPT !.replies = Append(@, reply)]
    /\ UNCHANGED <<build, env, arg, ctl, stk, fuel>>

\* client.post(url).body(req).send().unwrap().text().unwrap()
TransportFails ==
    /\ pc = "sending"
    /\ out' = [out EXCEPT !.request = <<>>, !.err = Panic("unwrap on Err")]
    /\ pc' = "panicked"
    /\ UNCHANGED <<build, env, heap, arg, hist, ctl, stk, fuel>>

\* The call has not returned within the bound.
InteractCutOff ==
    /\ pc = "round" /\ Len(hist.rounds) = MaxRounds
    /\ pc' = "cut off"
    /\ UNCHANGED <<build, env, heap, arg, out, hist, ctl, stk, fuel>>

InteractNext == InteractRound \/ ServerReply \/ TransportFails \/ InteractCutOff

SpecInteract == InteractInit /\ [][InteractNext]_vars

(***************************************************************************)
(* What interact is required to do, stated on the runs of SpecInteract.    *)
(* What each round of a call has to come to is known from the call: a      *)
(* fixed protocol answers (flag, next, data) in every round; statelessdraw *)
(* answers (0, nil, ((start))); relay answers (1, 1, start) in state 0 and *)
(* then (0, 1, ((reply))).                                                 *)
(***************************************************************************)
RECURSIVE DList(_)
\* The data value of a list of data values.
DList(vs) == IF vs = <<>> THEN DNil ELSE DCons(Head(vs), DList(Tail(vs)))
DPoint(q) == DCons(DInt(q[1]), DInt(q[2]))
DImage(im) == DList([i \in DOMAIN im |-> DPoint(im[i])])
DImages(ims) == DList([i \in DOMAIN ims |-> DImage(ims[i])])

ReplyValues == {DNil, DInt(0), DCons(DInt(1), DInt(2))}
WellFormed(bits) == \E v \in ReplyValues : Encodes(bits, v)
ReplyValue(bits) == CHOOSE v \in ReplyValues : Encodes(bits, v)

\* The value the flag of a fixed protocol reduces to.
FlagValue ==
    LET p == parse_string(DOMAIN env, arg.flag, heap)
    IN  eval(p.e, Cx, p.h, MaxFuel).v

\* The flag round k has to yield, the text of its new state, and its data.
DueFlag(k) ==
    CASE arg.kind = "fixed" -> FlagValue.n
      [] arg.kind = "draw" -> 0
      [] arg.kind = "relay" -> IF k = 1 THEN 1 ELSE 0
DueState(k) ==
    CASE arg.kind = "fixed" -> ToText(arg.next)
      [] arg.kind = "draw" -> <<"nil">>
      [] arg.kind = "relay" -> <<"1">>
DueSent(k) ==
    CASE arg.kind = "fixed" -> DImages(arg.data)
      [] arg.kind = "relay" -> DPoint(arg.start)
DuePictures ==
    CASE arg.kind = "fixed" -> arg.data
      [] arg.kind = "draw" -> <<<<arg.start>>>>
      [] arg.kind = "relay" ->
            LET q == ReplyValue(hist.replies[1]) IN <<<<<<q.hd.n, q.tl.n>>>>>>

\* The calls whose rounds yield a number for a flag, and those whose data
\* is moreover a list of lists of points wherever a round yields flag 0.
Flagged ==
    \/ arg.kind \in {"draw", "relay"}
    \/ arg.kind = "fixed" /\ arg.flag \in {<<"0">>, <<"1">>}
Regular ==
    /\ Flagged
    /\ arg.kind = "relay" /\ hist.replies # <<>> =>
           WellFormed(hist.replies[1]) /\ ReplyValue(hist.replies[1]).d = "cons"

Ascending(l) == \A i \in 1 .. Len(l) - 1 : Less(l[i], l[i + 1]) \/ l[i] = l[i + 1]
Count(l, q) == Cardinality({i \in DOMAIN l : l[i] = q})
SamePoints(l, m) ==
    /\ Len(l) = Len(m)
    /\ \A i \in DOMAIN m : Count(l, m[i]) = Count(m, m[i])

Pictured ==
    /\ Len(out.images) = Len(DuePictures)
    /\ \A i \in DOMAIN DuePictures :
           /\ Ascending(out.images[i])
           /\ SamePoints(out.images[i], DuePictures[i])

LastRound == Len(hist.rounds)

\* C3: a call whose round yields flag 0 returns from that round, with the
\* text of the demodulated new state of the round and with one image for
\* each element of the round's data, in order, each the points of that
\* element, duplicates kept, in ascending order of (x, y).
InteractReturns ==
    Regular /\ LastRound >= 1 /\ DueFlag(LastRound) = 0 =>
        /\ pc = "returned"
        /\ out.state = DueState(LastRound)
        /\ Pictured

\* The calls in which the least integer is modulated with overflow checks.
LeastModulated ==
    /\ build = "debug"
    /\ \/ arg.kind = "fixed" /\ MinInt \in IntsOf(arg.next)
       \/ arg.kind = "fixed" /\ arg.flag = <<"1">> /\ MinInt \in IntsOf(DImages(arg.data))

\* C3, but for the calls that modulate the least integer under overflow
\* checks.
InteractReturnsUnlessLeast == LeastModulated \/ InteractReturns

InteractReturnsReached ==
    /\ pc = "returned"
    /\ arg.kind = "fixed" /\ arg.flag = <<"0">> /\ arg.next = DCons(DInt(0), DCons(DNil, DNil))
    /\ out.state = <<"ap", "ap", "cons", "0", "ap", "ap", "cons", "nil", "nil">>
    /\ out.images = <<<<<<1, -3>>, <<1, 5>>, <<2, 1>>, <<2, 1>>>>, <<>>, <<<<-1, 7>>, <<0, 0>>>>>>

\* The rounds so far that had to yield flag 1.
SendRounds == {k \in 1 .. LastRound : DueFlag(k) = 1}

\* C4: in a call, every round that yields flag 1 makes exactly one request,
\* the modulation of the round's data, and the round after it is given the
\* text of the round's new state and the text of the demodulated reply; a
\* round that yields flag 0 makes no request and is the last one.
SendOncePerRound ==
    Flagged =>
        /\ Len(hist.sends) = Cardinality(SendRounds)
        /\ \A k \in SendRounds : Encodes(hist.sends[k], DueSent(k))
        /\ \A k \in 1 .. LastRound :
               /\ hist.rounds[k].flag = DueFlag(k)
               /\ DueFlag(k) = 0 =>
                      /\ k = LastRound /\ out.request = <<>>
                      /\ Regular => pc = "returned"
               /\ DueFlag(k) = 1 /\ k = LastRound /\ pc = "sending" =>
                      out.request = hist.sends[k]
               /\ k > 1 =>
                      /\ DueFlag(k - 1) = 1
                      /\ hist.rounds[k].input =
                             <<"ap", "ap", "protocol">> \o DueState(k - 1)
                                 \o ToText(ReplyValue(hist.replies[k - 1]))

\* C4, but for the calls that modulate the least integer under overflow
\* checks.
SendOncePerRoundUnlessLeast == LeastModulated \/ SendOncePerRound

SendOncePerRoundReached ==
    /\ pc = "returned"
    /\ arg.kind = "relay" /\ arg.start = <<-2, 3>>
    /\ Len(hist.rounds) = 2 /\ Len(hist.sends) = 1
    /\ hist.rounds[2].input = <<"ap", "ap", "protocol", "1", "ap", "ap", "cons", "1", "2">>

\* C5: a fixed protocol whose flag reduces to 0 ends the call in its first
\* round, and one whose flag reduces to 1 makes a request in it, whether
\* the flag is written as a number or as a term that reduces to one (the
\* calls that modulate the least integer under overflow checks set aside).
DispatchOnForcedFlag ==
    arg.kind = "fixed" /\ ~LeastModulated /\ LastRound >= 1 /\ FlagValue.tag = "Num" =>
        /\ FlagValue.n = 0 => pc = "returned"
        /\ FlagValue.n = 1 => Len(hist.sends) >= 1
        /\ hist.rounds[1].flag = IF FlagValue.n \in {0, 1} THEN FlagValue.n ELSE -1

\* C5 for the flags that are written as numbers.
DispatchOnLiteralFlag == arg.kind = "fixed" /\ Len(arg.flag) = 1 => DispatchOnForcedFlag

====
